---- MODULE Spec2Model ----
(***************************************************************************)
(* Keep Away (bastd/game/keepaway.py): the flag-contest state machine of   *)
(* KeepAwayGame.  The game object's fields are the variables; every        *)
(* handler the host engine dispatches (on_team_join, on_begin, the         *)
(* one-second _tick, handlemessage for pickup/drop/flag-died/player-died,  *)
(* end_game from the time limit) is one action.  The engine's own state    *)
(* (what each player's body is grasping) is the variable world, which      *)
(* changes on its own between handlers.                                    *)
(***************************************************************************)
EXTENDS Integers, Sequences, FiniteSets, TLC

\* ------------------------------------------------------------------ bounds
\* settings_raw['Hold Time'] of the modelled session.
HoldTime == 3
\* Number of teams of the session.
NumTeams == 2
\* Flags the engine lets die and respawn in one run.
MaxFlags == 2
\* Calls of end_game the host accepts before it tears the activity down.
MaxEndCalls == 2
\* settings_raw['Hold Time'] of the session with the long countdown.
LongHoldTime == 12

\* ------------------------------------------------------- roster and values
Teams == 1..NumTeams

\* self.players, in roster order, as the team each player is on: players 1
\* and 3 share team 1, player 2 is on the last team.
Roster == <<1, NumTeams, 1>>

Players == DOMAIN Roster

TeamOf(p) == Roster[p]

\* Python's None, for team- and flag-valued fields.
None == 0

\* What the engine holds for a player when _update_flag_state looks at it:
\*   "none"  player.actor and player.actor.node and ...hold_node is falsy:
\*           the player has no body (dead), or the body grasps nothing
\*   "other" the body grasps a node whose type is not 'flag'
\*   "flag"  the body grasps a node of type 'flag'
\*   "error" evaluating the check raises
Kinds == {"none", "other", "flag", "error"}

MapFlagPosition == "map_flag_position"

VARIABLES
    activity,         \* host: "constructed" until on_begin has run, then "begun"
    hold_time,        \* self.settings_raw['Hold Time']
    players,          \* self.players, in roster order
    teams,            \* self.teams: the teams that have joined
    world,            \* engine: player -> Kinds
    time_remaining,   \* team.gamedata['time_remaining'], for joined teams
    holding_flag,     \* team.gamedata['holding_flag'], for joined teams
    holding_players,  \* self._holding_players
    flag_state,       \* self._flag_state: "None", "NEW", "UNCONTESTED", ...
    scoring_team,     \* self._scoring_team
    flag,             \* self._flag: [id, position, color], or NoFlag
    flag_light,       \* self._flag_light: [owner, color], or NoLight
    flag_spawn_pos,   \* self._flag_spawn_pos
    update_timer,     \* self._update_timer
    scoreboard,       \* self._scoreboard: the value shown for each team
    end_calls,        \* number of end_game calls so far
    tick_ends,        \* history: number of ticks that have called end_game
    flags_spawned,    \* number of Flag objects constructed so far
    live_flags,       \* ids of the Flag objects alive in the world
    last_class,       \* history: the state the latest evaluation classified
    sole_ticks,       \* history: per team, ticks at which it was the sole holder
    last              \* history: what the latest handler did: the evaluations
                      \* it made, the sounds it played, the awards it gave,
                      \* the score text it set, the results it handed to
                      \* self.end()

vars == <<activity, hold_time, players, teams, world, time_remaining, holding_flag, holding_players,
          flag_state, scoring_team, flag, flag_light, flag_spawn_pos,
          update_timer, scoreboard, end_calls, tick_ends,
          flags_spawned, live_flags, last_class, sole_ticks, last>>

NoFlag == [id |-> None, position |-> "None", color |-> "None"]

NoLight == [owner |-> None, color |-> "None"]

NoTrace == [op |-> "none", evals |-> <<>>, sounds |-> <<>>, scored |-> <<>>,
            score_text |-> <<>>, ended |-> FALSE, results |-> <<>>]

\* ------------------------------------------------------------ pure helpers
Max(a, b) == IF a >= b THEN a ELSE b

Min(a, b) == IF a <= b THEN a ELSE b

Range(s) == {s[i] : i \in DOMAIN s}

\* Variant: the announcement for ten is missing.
CountdownSoundsNoTen ==
    (1 :> "announceOne") @@ (2 :> "announceTwo") @@ (3 :> "announceThree") @@
    (4 :> "announceFour") @@ (5 :> "announceFive") @@ (6 :> "announceSix") @@
    (7 :> "announceSeven") @@ (8 :> "announceEight") @@ (9 :> "announceNine")

\* self._countdownsounds
CountdownSounds ==
    (1 :> "announceOne") @@ (2 :> "announceTwo") @@ (3 :> "announceThree") @@
    (4 :> "announceFour") @@ (5 :> "announceFive") @@ (6 :> "announceSix") @@
    (7 :> "announceSeven") @@ (8 :> "announceEight") @@ (9 :> "announceNine") @@
    (10 :> "announceTen")

\* Variant: a check that raises leaves the player counted as holding.
HoldCheckErrorHolds(k) == k \in {"flag", "error"}

\* The body of the try block in _update_flag_state for one player, with the
\* except clause: holding_flag starts False and keeps it when the check raises.
HoldCheck(k) ==
    IF k = "error" THEN FALSE
    ELSE IF k = "none" THEN FALSE
    ELSE k = "flag"

\* Colours the game gives the flag node and its light.
White == [name |-> "white", team |-> None]

Dim == [name |-> "dim", team |-> None]

ContestedFlagColor == [name |-> "contested_flag", team |-> None]

ContestedLightColor == [name |-> "contested_light", team |-> None]

TeamColor(t) == [name |-> "team", team |-> t]

NormalizedTeamColor(t) == [name |-> "team_normalized", team |-> t]

\* Every player of the roster, in order.
PlayerSeq == [i \in 1..Len(Roster) |-> i]

\* Variant: the test for more than one holding team is lost.
ClassifyNoContest(n) == IF n >= 1 THEN "HELD" ELSE "UNCONTESTED"

\* The branch of _update_flag_state taken for a number of holding teams.
Classify(n) ==
    IF n > 1 THEN "CONTESTED"
    ELSE IF n = 1 THEN "HELD"
    ELSE "UNCONTESTED"

\* Variant: the contested branch forgets to clear the scoring team.
ScoringTeamKept(holding_teams) ==
    IF holding_teams /= {} THEN CHOOSE t \in holding_teams : TRUE ELSE None

\* self._scoring_team as the branches of _update_flag_state assign it.
ScoringTeamOf(holding_teams) ==
    IF Cardinality(holding_teams) > 1 THEN None
    ELSE IF Cardinality(holding_teams) = 1
         THEN CHOOSE t \in holding_teams : TRUE
    ELSE None

\* Variant: the sound is level-triggered.
PlaysSwipAlways(state, prev_state) == TRUE

\* if self._flag_state != prev_state: playsound(swip)
PlaysSwip(state, prev_state) == state /= prev_state

\* ba.playsound
PlaySound(g, s) == [g EXCEPT !.sounds = Append(@, s)]

\* The handler-visible state of the game object plus the trace of what the
\* running handler has done so far.
Game ==
    [time_remaining |-> time_remaining, holding_flag |-> holding_flag,
     holding_players |-> holding_players, flag_state |-> flag_state,
     scoring_team |-> scoring_team, flag |-> flag, flag_light |-> flag_light,
     flag_spawn_pos |-> flag_spawn_pos, update_timer |-> update_timer,
     scoreboard |-> scoreboard, end_calls |-> end_calls,
     flags_spawned |-> flags_spawned, live_flags |-> live_flags,
     last_class |-> last_class,
     evals |-> <<>>, sounds |-> <<>>, scored |-> <<>>, score_text |-> <<>>,
     ended |-> FALSE, results |-> <<>>]

\* KeepAwayGame._update_flag_state
UpdateFlagState(g) ==
    LET hp == SelectSeq(players, LAMBDA p : HoldCheck(world[p]))
        hf == [t \in teams |-> \E i \in DOMAIN hp : TeamOf(hp[i]) = t]
        holding_teams == {t \in teams : hf[t]}
        prev_state == g.flag_state
        n == Cardinality(holding_teams)
        state == Classify(n)
        team == ScoringTeamOf(holding_teams)
        swip == PlaysSwip(state, prev_state)
        g1 == [g EXCEPT
                 !.holding_flag = hf,
                 !.holding_players = hp,
                 !.flag_state = state,
                 !.scoring_team = team,
                 !.flag_light.color =
                     IF n > 1 THEN ContestedLightColor
                     ELSE IF n = 1 THEN NormalizedTeamColor(team)
                     ELSE Dim,
                 !.flag.color =
                     IF n > 1 THEN ContestedFlagColor
                     ELSE IF n = 1 THEN TeamColor(team)
                     ELSE White,
                 !.last_class = state,
                 !.evals = Append(@, [state |-> state, scoring |-> team,
                                      holders |-> hp, swip |-> swip])]
    IN  IF swip THEN PlaySound(g1, "swip") ELSE g1

\* Flag(dropped_timeout=20, position=...): where _spawn_flag puts the flag.
SpawnPosition(g) == g.flag_spawn_pos

\* Variant: _spawn_flag leaves the new flag in state NEW.
SpawnFlagNoEval(g) ==
    LET g1 == PlaySound(g, "swip")
        id == g1.flags_spawned + 1
    IN  [g1 EXCEPT
           !.flag = [id |-> id, position |-> SpawnPosition(g1), color |-> White],
           !.flags_spawned = id,
           !.live_flags = @ \cup {id},
           !.flag_state = "NEW",
           !.flag_light = [owner |-> id, color |-> Dim]]

\* KeepAwayGame._spawn_flag (the flash of _flash_flag_spawn is a transient
\* light that deletes itself and is no state of the game).
SpawnFlag(g) ==
    LET g1 == PlaySound(g, "swip")
        id == g1.flags_spawned + 1
        g2 == [g1 EXCEPT
                 !.flag = [id |-> id, position |-> SpawnPosition(g1),
                           color |-> White],
                 !.flags_spawned = id,
                 !.live_flags = @ \cup {id},
                 !.flag_state = "NEW",
                 !.flag_light = [owner |-> id, color |-> Dim]]
    IN  UpdateFlagState(g2)

\* Variant: the scoreboard is not refreshed.
UpdateScoreboardSkipped(g) == g

\* KeepAwayGame._update_scoreboard
UpdateScoreboard(g) ==
    [g EXCEPT !.scoreboard = [t \in teams |-> g.time_remaining[t]]]

\* Variant: the remaining time itself is reported.
TeamScoreRemaining(remaining) == remaining

\* results.set_team_score(team, settings['Hold Time'] - time_remaining)
TeamScore(remaining) == hold_time - remaining

\* KeepAwayGame.end_game
EndGame(g) ==
    [g EXCEPT !.results = [t \in teams |-> TeamScore(g.time_remaining[t])],
              !.end_calls = @ + 1,
              !.ended = TRUE]

\* Variant: the floor at 0 is lost.
DecrementUnclamped(remaining) == remaining - 1

\* Variant: two seconds are taken per tick.
DecrementTwice(remaining) == Max(0, remaining - 2)

\* max(0, time_remaining - 1)
Decrement(remaining) == Max(0, remaining - 1)

\* Variant: the winner test is strict.
WinnerLate(remaining) == remaining < 0

\* if scoring_team.gamedata['time_remaining'] <= 0: the winner branch of _tick
Winner(remaining) == remaining <= 0

\* Variant: the tick sound is played whatever the remaining time.
PlaysTickAlways(remaining) == TRUE

\* if scoring_team.gamedata['time_remaining'] > 0: playsound(tick), tested
\* before the decrement
PlaysTick(remaining) == remaining > 0

\* Variant: every team's countdown runs, not only the scoring team's.
TickScoringAllTeams(g, scoring) ==
    LET g1 == UpdateScoreboard(
                  [g EXCEPT !.time_remaining =
                       [t \in teams |-> Decrement(g.time_remaining[t])]])
    IN  IF Winner(g1.time_remaining[scoring]) THEN EndGame(g1) ELSE g1

\* The part of _tick under "if scoring_team is not None".
TickScoring(g, scoring) ==
    LET before == g.time_remaining[scoring]
        g1 == IF PlaysTick(before) THEN PlaySound(g, "tick") ELSE g
        after == Decrement(before)
        g2 == UpdateScoreboard([g1 EXCEPT !.time_remaining[scoring] = after])
        g3 == IF after > 0
              THEN [g2 EXCEPT !.score_text = Append(@, after)]
              ELSE g2
        g4 == IF after \in DOMAIN CountdownSounds
              THEN PlaySound(g3, CountdownSounds[after])
              ELSE g3
    IN  IF Winner(after) THEN EndGame(g4) ELSE g4

\* stats.player_scored(player, 3, ...)
AwardPoints == 3

\* Variant: only the scoring team's players are awarded.
AwardsScoringTeamOnly(g) ==
    LET hp == SelectSeq(g.holding_players,
                        LAMBDA p : TeamOf(p) = g.scoring_team)
    IN  [i \in DOMAIN hp |-> [player |-> hp[i], points |-> AwardPoints]]

\* The loop of _tick over self._holding_players: every holding player that
\* still exists is awarded.
Awards(g) ==
    LET hp == SelectSeq(g.holding_players, LAMBDA p : p \in Range(players))
    IN  [i \in DOMAIN hp |-> [player |-> hp[i], points |-> AwardPoints]]

\* Variant: the tick scores with the holders and the scoring team the last
\* evaluation left, without evaluating again.
TickBodyStale(g) ==
    LET g2 == [g EXCEPT !.scored = Awards(g)]
    IN  IF g2.scoring_team /= None
        THEN TickScoring(g2, g2.scoring_team)
        ELSE g2

\* KeepAwayGame._tick
TickBody(g) ==
    LET g1 == UpdateFlagState(g)
        g2 == [g1 EXCEPT !.scored = Awards(g1)]
    IN  IF g2.scoring_team /= None
        THEN TickScoring(g2, g2.scoring_team)
        ELSE g2

\* Variant: on_begin spawns a flag, and so does its evaluation of a state
\* found NEW.
BeginBodySpawnsTwice(g) ==
    LET g1 == [g EXCEPT !.flag_spawn_pos = MapFlagPosition]
        g2 == SpawnFlag(g1)
        g3 == [g2 EXCEPT !.update_timer = "repeating"]
    IN  SpawnFlag(g3)

\* KeepAwayGame.on_begin
BeginBody(g) ==
    LET g1 == [g EXCEPT !.flag_spawn_pos = MapFlagPosition]
        g2 == SpawnFlag(g1)
        g3 == [g2 EXCEPT !.update_timer = "repeating"]
    IN  UpdateFlagState(g3)

\* The team that alone has a player grasping the flag in the engine's state,
\* or None: what the game is about, independently of how the code finds it.
SoleHolder ==
    LET ts == {TeamOf(p) : p \in {q \in Players : world[q] = "flag"}}
    IN  IF Cardinality(ts) = 1 THEN CHOOSE t \in ts : TRUE ELSE None

Trace(op, g) ==
    [op |-> op, evals |-> g.evals, sounds |-> g.sounds, scored |-> g.scored,
     score_text |-> g.score_text, ended |-> g.ended, results |-> g.results]

\* A handler's effect on the game object becomes the next state.
Commit(op, g) ==
    /\ time_remaining' = g.time_remaining
    /\ holding_flag' = g.holding_flag
    /\ holding_players' = g.holding_players
    /\ flag_state' = g.flag_state
    /\ scoring_team' = g.scoring_team
    /\ flag' = g.flag
    /\ flag_light' = g.flag_light
    /\ flag_spawn_pos' = g.flag_spawn_pos
    /\ update_timer' = g.update_timer
    /\ scoreboard' = g.scoreboard
    /\ end_calls' = g.end_calls
    /\ flags_spawned' = g.flags_spawned
    /\ live_flags' = g.live_flags
    /\ last_class' = g.last_class
    /\ last' = Trace(op, g)

\* ------------------------------------------------------------------- Init
\* The game object as __init__ leaves it, for a session with Hold Time h and
\* the players ps; no team has joined, every player is empty-handed.
Constructed(h, ps) ==
    /\ activity = "constructed"
    /\ hold_time = h
    /\ players = ps
    /\ teams = {}
    /\ world = [p \in Players |-> "none"]
    /\ time_remaining = <<>>
    /\ holding_flag = <<>>
    /\ holding_players = <<>>
    /\ flag_state = "None"
    /\ scoring_team = None
    /\ flag = NoFlag
    /\ flag_light = NoLight
    /\ flag_spawn_pos = "None"
    /\ update_timer = "None"
    /\ scoreboard = <<>>
    /\ end_calls = 0
    /\ tick_ends = 0
    /\ flags_spawned = 0
    /\ live_flags = {}
    /\ last_class = "None"
    /\ sole_ticks = <<>>
    /\ last = NoTrace

\* The session of the main specification: the whole roster, a short hold time.
Init == Constructed(HoldTime, PlayerSeq)

\* A session with one player and a hold time above the ten seconds the game
\* has countdown announcements for.
InitLong == Constructed(LongHoldTime, <<1>>)

\* A session with one player on each of two teams.
InitDuel == Constructed(HoldTime, <<1, 2>>)

\* ---------------------------------------------------------------- actions
\* KeepAwayGame.on_team_join: the host adds the session's teams before it
\* calls on_begin.
OnTeamJoin(t) ==
    /\ activity = "constructed"
    /\ t \notin teams
    /\ teams' = teams \cup {t}
    /\ time_remaining' = [u \in teams' |-> IF u = t THEN hold_time
                                            ELSE time_remaining[u]]
    /\ scoreboard' = [u \in teams' |-> time_remaining'[u]]
    /\ sole_ticks' = [u \in teams' |-> IF u = t THEN 0 ELSE sole_ticks[u]]
    /\ last' = [NoTrace EXCEPT !.op = "on_team_join"]
    /\ UNCHANGED <<activity, hold_time, players, world, holding_flag,
                   holding_players, flag_state, scoring_team, flag, flag_light,
                   flag_spawn_pos, update_timer, end_calls, tick_ends,
                   flags_spawned, live_flags, last_class>>

\* KeepAwayGame.on_begin, once every team of the session has joined.
OnBegin ==
    /\ activity = "constructed"
    /\ teams = Teams
    /\ activity' = "begun"
    /\ Commit("on_begin", BeginBody(Game))
    /\ UNCHANGED <<hold_time, players, teams, world, sole_ticks,
                   tick_ends>>

\* The repeating one-second timer of on_begin fires: KeepAwayGame._tick.
Tick ==
    /\ update_timer = "repeating"
    /\ end_calls < MaxEndCalls
    /\ Commit("tick", TickBody(Game))
    /\ sole_ticks' = [t \in teams |->
                        IF t = SoleHolder
                        THEN Min(sole_ticks[t] + 1, hold_time + 1)
                        ELSE sole_ticks[t]]
    /\ tick_ends' = IF last'.ended THEN tick_ends + 1 ELSE tick_ends
    /\ UNCHANGED <<activity, hold_time, players, teams, world>>

\* handlemessage(FlagDroppedMessage | FlagPickedUpMessage)
HandleFlagMoved(msg) ==
    /\ activity = "begun"
    /\ Commit(msg, UpdateFlagState(Game))
    /\ UNCHANGED <<activity, hold_time, players, teams, world, sole_ticks,
                   tick_ends>>

\* handlemessage(FlagDiedMessage): the engine's flag has died, a new one is
\* spawned.
HandleFlagDied ==
    /\ activity = "begun"
    /\ flags_spawned < MaxFlags
    /\ Commit("FlagDiedMessage",
              SpawnFlag([Game EXCEPT !.live_flags = @ \ {flag.id}]))
    /\ UNCHANGED <<activity, hold_time, players, teams, world, sole_ticks,
                   tick_ends>>

\* handlemessage(PlayerDiedMessage): the player's body is gone; the host
\* schedules the respawn.  No field of the game changes.
HandlePlayerDied(p) ==
    /\ activity = "begun"
    /\ world' = [world EXCEPT ![p] = "none"]
    /\ Commit("PlayerDiedMessage", Game)
    /\ UNCHANGED <<activity, hold_time, players, teams, sole_ticks,
                   tick_ends>>

\* The host's standard time limit (setup_standard_time_limit) is up and the
\* host calls end_game.
TimeLimitExpired ==
    /\ activity = "begun"
    /\ end_calls < MaxEndCalls
    /\ Commit("time_limit", EndGame(Game))
    /\ UNCHANGED <<activity, hold_time, players, teams, world, sole_ticks,
                   tick_ends>>

\* The engine moves on without telling the game: a body grasps or lets go
\* of something, a dead player respawns, or a player's node goes bad so that
\* looking at it raises.  What the game sees at its next handler is only the
\* outcome, so one step stands for any number of such changes to a player.
WorldStep(p, k) ==
    /\ activity = "begun"
    /\ p \in Range(players)
    /\ world[p] /= k
    /\ world' = [world EXCEPT ![p] = k]
    /\ last' = [NoTrace EXCEPT !.op = "world"]
    /\ UNCHANGED <<activity, hold_time, players, teams, time_remaining,
                   holding_flag, holding_players, flag_state, scoring_team,
                   flag, flag_light, flag_spawn_pos, update_timer, scoreboard,
                   end_calls, flags_spawned, live_flags, last_class,
                   sole_ticks,
                   tick_ends>>

Next ==
    \/ \E t \in Teams : OnTeamJoin(t)
    \/ OnBegin
    \/ Tick
    \/ \E msg \in {"FlagDroppedMessage", "FlagPickedUpMessage"} :
           HandleFlagMoved(msg)
    \/ HandleFlagDied
    \/ \E p \in Range(players) : HandlePlayerDied(p)
    \/ TimeLimitExpired
    \/ \E p \in Players, k \in Kinds : WorldStep(p, k)

Spec == Init /\ [][Next]_vars

SpecLong == InitLong /\ [][Next]_vars

\* A tick at which some team is the sole holder, as the history variable
\* sole_ticks shows it: only Tick changes sole_ticks, and every Tick taken
\* while a team is the sole holder and its count is not yet at its cap
\* changes it in this way.
HolderTick ==
    /\ update_timer = "repeating"
    /\ end_calls < MaxEndCalls
    /\ SoleHolder /= None
    /\ sole_ticks[SoleHolder] <= hold_time
    /\ sole_ticks' = [sole_ticks EXCEPT ![SoleHolder] = @ + 1]

\* The timer of on_begin repeats: while the host delivers ticks at all, the
\* tick of a sole holder is not put off for ever.
SpecLive == InitDuel /\ [][Next]_vars /\ WF_sole_ticks(HolderTick)

\* ----------------------------------------------------------------- claims
\* What the claims speak of, taken from the engine's state and not from the
\* game's fields: the teams that have a player grasping the flag now.
HoldingTeamsNow ==
    {TeamOf(p) : p \in {q \in Range(players) : world[q] = "flag"}}

ExpectedState ==
    IF HoldingTeamsNow = {} THEN "UNCONTESTED"
    ELSE IF \E t \in Teams : HoldingTeamsNow = {t} THEN "HELD"
    ELSE "CONTESTED"

\* The handlers that evaluate the flag state.
Evaluated(tr) == tr.evals /= <<>>

\* C1: after every evaluation of the flag state (on_begin, _tick, _spawn_flag,
\* pickup and drop), the state is UNCONTESTED when no team has a holding
\* player, HELD when exactly one team has (however many of its players hold),
\* CONTESTED when two or more teams have.
C1_Classification ==
    Evaluated(last) =>
        /\ flag_state = ExpectedState
        /\ \A i \in DOMAIN last.evals : last.evals[i].state = ExpectedState

\* A tick has classified HELD with two players of one team holding.
C1_Witness ==
    /\ last.op = "tick"
    /\ flag_state = "HELD"
    /\ Len(holding_players) = 2

\* C2: in every reachable state a scoring team is set iff the state is HELD,
\* and then it is the one team that had a holding player at the last
\* evaluation; in UNCONTESTED and CONTESTED it is unset.
C2_ScoringTeam ==
    /\ (scoring_team /= None) <=> (flag_state = "HELD")
    /\ scoring_team /= None =>
           /\ scoring_team \in teams
           /\ {TeamOf(holding_players[i]) : i \in DOMAIN holding_players}
                  = {scoring_team}
           /\ \A t \in teams : holding_flag[t] <=> t = scoring_team
    /\ flag_state \in {"UNCONTESTED", "CONTESTED"} => scoring_team = None

\* The holders have changed since the evaluation that set the scoring team.
C2_Witness ==
    /\ flag_state = "HELD"
    /\ scoring_team = NumTeams
    /\ ExpectedState = "CONTESTED"

\* C3 as claimed: on every tick at which a team is the sole holder its
\* remaining time decreases by exactly 1, and no remaining time is negative.
C3_AlwaysDecreases ==
    [][/\ (last'.op = "tick" /\ SoleHolder /= None) =>
              time_remaining'[SoleHolder] = time_remaining[SoleHolder] - 1
       /\ \A t \in teams' : time_remaining'[t] >= 0]_vars

\* C3 as the code has it: on every tick at which a team is the sole holder
\* its remaining time decreases by exactly 1 if it was above 0 and stays 0 if
\* it was 0, however many of its players hold; no remaining time is negative.
C3_DecreasesToFloor ==
    [][/\ (last'.op = "tick" /\ SoleHolder /= None) =>
              /\ time_remaining[SoleHolder] > 0 =>
                     time_remaining'[SoleHolder] = time_remaining[SoleHolder] - 1
              /\ time_remaining[SoleHolder] = 0 =>
                     time_remaining'[SoleHolder] = 0
       /\ \A t \in teams' : time_remaining'[t] >= 0]_vars

\* A team was the sole holder at one more tick than its hold time: the last
\* of them found its remaining time at 0.
C3_Witness ==
    /\ last.op = "tick"
    /\ \E t \in teams : sole_ticks[t] = hold_time + 1 /\ time_remaining[t] = 0

\* C4: pickup, drop, flag-died and player-died events leave every team's
\* remaining time unchanged; a tick leaves unchanged the remaining time of
\* every team that is not the sole holder: of all teams in UNCONTESTED and
\* CONTESTED, of all but the scoring team in HELD.
C4_Frozen ==
    [][/\ last'.op \in {"FlagPickedUpMessage", "FlagDroppedMessage",
                        "FlagDiedMessage", "PlayerDiedMessage"} =>
              time_remaining' = time_remaining
       /\ last'.op = "tick" =>
              /\ \A t \in teams :
                     t /= SoleHolder => time_remaining'[t] = time_remaining[t]
              /\ flag_state' \in {"UNCONTESTED", "CONTESTED"} =>
                     time_remaining' = time_remaining
              /\ flag_state' = "HELD" =>
                     \A t \in teams : t /= scoring_team' =>
                         time_remaining'[t] = time_remaining[t]]_vars

\* A tick in CONTESTED state, after some team has already held the flag.
C4_Witness ==
    /\ last.op = "tick"
    /\ flag_state = "CONTESTED"
    /\ \E t \in teams : time_remaining[t] < hold_time

\* C5: a tick calls end_game in the tick in which the scoring team's
\* remaining time reaches 0, and in no tick that leaves the scoring team's
\* remaining time above 0 or has no scoring team.
C5_EndAtZero ==
    last.op = "tick" =>
        /\ last.ended <=>
               (scoring_team /= None /\ time_remaining[scoring_team] = 0)
        /\ last.ended => \E t \in teams : time_remaining[t] = 0

\* The tick that ends the game for the first time.
C5_Witness ==
    /\ last.op = "tick"
    /\ last.ended
    /\ end_calls = 1

\* C6: when end_game runs, from a tick or from the time limit, the score
\* reported for every team is Hold Time minus its remaining time at that
\* moment: it lies in 0..HoldTime, and is HoldTime for a team at 0.
C6_Results ==
    last.ended =>
        /\ DOMAIN last.results = teams
        /\ \A t \in teams :
               /\ last.results[t] = hold_time - time_remaining[t]
               /\ last.results[t] \in 0..hold_time
               /\ time_remaining[t] = 0 => last.results[t] = hold_time

\* The time limit ends a game in which some team has held the flag for a
\* while without winning.
C6_Witness ==
    /\ last.op = "time_limit"
    /\ last.ended
    /\ \E t \in teams : last.results[t] \in 1..(hold_time - 1)

\* C7: for every team, Hold Time minus its remaining time is the number of
\* ticks so far at which it was the sole holder, capped at Hold Time; nothing
\* resets or restores it.
C7_Cumulative ==
    \A t \in teams :
        hold_time - time_remaining[t] = Min(sole_ticks[t], hold_time)

\* Both teams have held the flag alone for a while, and the flag has died
\* and respawned meanwhile.
C7_Witness ==
    /\ flags_spawned > 1
    /\ flag_state = "CONTESTED"
    /\ \A t \in teams : sole_ticks[t] >= 1 /\ time_remaining[t] >= 1

\* The state an evaluation of the last handler is compared with in C8: the
\* one the evaluation before it classified ("None" when there was none).
Preceding(tr, i, before) == IF i = 1 THEN before ELSE tr.evals[i - 1].state

\* C8 as claimed: an evaluation plays the transition sound iff the state it
\* classifies differs from the state the immediately preceding evaluation
\* classified.
C8_EdgeOnClassification ==
    [][\A i \in DOMAIN last'.evals :
           last'.evals[i].swip <=>
               last'.evals[i].state /= Preceding(last', i, last_class)]_vars

\* C8 as the code has it: an evaluation plays the transition sound iff the
\* state it classifies differs from the flag state stored when it starts:
\* NEW for the evaluation _spawn_flag makes (which therefore always plays it),
\* the state the preceding evaluation classified otherwise.
C8_EdgeOnStoredState ==
    [][\A i \in DOMAIN last'.evals :
           last'.evals[i].swip <=>
               last'.evals[i].state /=
                   (IF i = 1 /\ last'.op \in {"on_begin", "FlagDiedMessage"}
                    THEN "NEW"
                    ELSE Preceding(last', i, last_class))]_vars

\* A tick that classified the state the evaluation before it had classified,
\* and played no transition sound.
C8_Witness ==
    /\ last.op = "tick"
    /\ flag_state = "HELD"
    /\ ~last.evals[1].swip
    /\ "swip" \notin Range(last.sounds)

\* C9: a player whose hold check raises is treated as not holding (not among
\* the holding players, not marking the team as holding); the other players
\* are evaluated normally, and the evaluation and the enclosing tick run to
\* completion with the state classified from the remaining players.
C9_RaisingCheck ==
    Evaluated(last) =>
        /\ \A p \in Range(players) :
               world[p] = "error" => p \notin Range(holding_players)
        /\ holding_players = SelectSeq(players, LAMBDA p : world[p] = "flag")
        /\ \A t \in teams : holding_flag[t] <=> t \in HoldingTeamsNow
        /\ flag_state = ExpectedState
        /\ last.op = "tick" =>
               [i \in DOMAIN last.scored |-> last.scored[i].player]
                   = holding_players

\* A tick during which the check raised for player 1 while the other player
\* of that team held the flag.
C9_Witness ==
    /\ last.op = "tick"
    /\ world[1] = "error"
    /\ holding_players = <<3>>
    /\ flag_state = "HELD"

\* C10: handling a flag-died event spawns a replacement flag at the position
\* recorded at game begin and re-evaluates the state in the same handler, so
\* that the state is the classification of the current holders; NEW is never
\* the state when a handler has returned.
C10_RespawnEvaluates ==
    /\ flag_state /= "NEW"
    /\ last.op = "FlagDiedMessage" =>
           /\ flag.id = flags_spawned
           /\ flag.position = MapFlagPosition
           /\ flag.position = flag_spawn_pos
           /\ flag_light.owner = flag.id
           /\ Len(last.evals) = 1
           /\ flag_state = ExpectedState

\* A respawn that goes straight to CONTESTED.
C10_Witness ==
    /\ last.op = "FlagDiedMessage"
    /\ flag_state = "CONTESTED"

\* C11 as claimed: on a tick with a scoring team, the tick sound is played
\* iff the scoring team's remaining time is above 0 after the decrement.
C11_TickSoundAfter ==
    (last.op = "tick" /\ scoring_team /= None) =>
        ("tick" \in Range(last.sounds) <=> time_remaining[scoring_team] > 0)

\* C11 as the code has it: on a tick with a scoring team, the tick sound is
\* played iff the scoring team's remaining time was above 0 before the
\* decrement of that tick, so also on the tick that takes it from 1 to 0.
C11_TickSoundBefore ==
    [][(last'.op = "tick" /\ scoring_team' /= None) =>
           ("tick" \in Range(last'.sounds) <=>
                time_remaining[scoring_team'] > 0)]_vars

\* The tick that takes the scoring team from 1 to 0 has played the tick
\* sound.
C11_Witness ==
    /\ last.op = "tick"
    /\ scoring_team /= None
    /\ time_remaining[scoring_team] = 0
    /\ "tick" \in Range(last.sounds)

\* C12: on every tick each player holding the flag at that tick receives the
\* fixed award of 3 points, once, whether the state is HELD or CONTESTED and
\* whichever team is the scoring team; no other player receives it.
C12_Awards ==
    last.op = "tick" =>
        /\ \A p \in Range(players) :
               Cardinality({i \in DOMAIN last.scored :
                                last.scored[i].player = p})
                   = (IF world[p] = "flag" THEN 1 ELSE 0)
        /\ \A i \in DOMAIN last.scored :
               /\ last.scored[i].points = 3
               /\ last.scored[i].player \in Range(players)

\* A tick in CONTESTED state has awarded the holders of both teams.
C12_Witness ==
    /\ last.op = "tick"
    /\ flag_state = "CONTESTED"
    /\ Len(last.scored) = 3

\* The announcements the game has, by the number they speak.
Announcement ==
    <<"announceOne", "announceTwo", "announceThree", "announceFour",
      "announceFive", "announceSix", "announceSeven", "announceEight",
      "announceNine", "announceTen">>

\* The sounds of the last handler other than the swip and the tick.
Announced == SelectSeq(last.sounds, LAMBDA x : x \notin {"swip", "tick"})

\* C13: on a tick with a scoring team a countdown announcement is played
\* exactly when the remaining time after the decrement is one of 1..10, and
\* it is the one for that number; for any other value, 0 and values above 10
\* included, nothing is announced and the rest of the tick still runs: the
\* game is ended iff the value is 0.
C13_Countdown ==
    (last.op = "tick" /\ scoring_team /= None) =>
        LET r == time_remaining[scoring_team]
        IN  /\ r \in 1..10 => Announced = <<Announcement[r]>>
            /\ r \notin 1..10 => Announced = <<>>
            /\ last.ended <=> r = 0
            /\ scoreboard[scoring_team] = r

\* A tick that left the scoring team above ten seconds: nothing announced.
C13_Witness ==
    /\ last.op = "tick"
    /\ scoring_team /= None
    /\ time_remaining[scoring_team] > 10
    /\ Announced = <<>>
    /\ "tick" \in Range(last.sounds)

\* C14: at most one flag exists at a time: a flag is spawned only by on_begin
\* and by the handler of the death of the current flag, one per handler, and
\* the game's reference is to the most recently spawned flag, the only one
\* alive.
C14_OneFlag ==
    [][/\ Cardinality(live_flags') <= 1
       /\ flags_spawned' /= flags_spawned =>
              /\ last'.op \in {"on_begin", "FlagDiedMessage"}
              /\ flags_spawned' = flags_spawned + 1
       /\ last'.op \in {"on_begin", "FlagDiedMessage"} =>
              flags_spawned' = flags_spawned + 1
       /\ activity' = "begun" =>
              /\ flag'.id = flags_spawned'
              /\ live_flags' = {flag'.id}
              /\ flag_light'.owner = flag'.id]_vars

\* The first flag has died and the second is the one the game refers to,
\* after ticks and flag messages.
C14_Witness ==
    /\ last.op = "tick"
    /\ flags_spawned = 2
    /\ flag.id = 2
    /\ live_flags = {2}

\* C15: if from some point on one team is the sole holder of the flag, and
\* ticks keep being delivered, the game eventually ends; every tick of that
\* team takes one second off its remaining time until it is 0, and the tick
\* that takes it to 0 ends the game, so this takes at most as many ticks as
\* the team's remaining time.
C15_EventuallyEnds ==
    /\ \A t \in Teams : <>[](SoleHolder = t) => <>(end_calls > 0)
    /\ [][(last'.op = "tick" /\ SoleHolder /= None) =>
              /\ time_remaining'[SoleHolder]
                     = Max(0, time_remaining[SoleHolder] - 1)
              /\ time_remaining'[SoleHolder] = 0 => last'.ended]_vars

\* A team has been the sole holder for exactly its hold time in ticks, and
\* the last of these ticks has ended the game.
C15_Witness ==
    /\ last.op = "tick"
    /\ last.ended
    /\ end_calls = 1
    /\ \E t \in teams : t = SoleHolder /\ sole_ticks[t] = hold_time

\* C16: each tick derives the holding players and the scoring team anew from
\* what the players hold now, before it scores: after a tick they are the
\* current holders and the current sole holder, and a team whose remaining
\* time the tick has changed is the sole holder at that tick, even when the
\* holders have changed since the last evaluation with no pickup or drop
\* delivered; the scoring team an earlier evaluation left is not counted
\* down unless it is the sole holder now.
C16_FreshHolders ==
    [][last'.op = "tick" =>
           /\ Len(last'.evals) = 1
           /\ holding_players'
                  = SelectSeq(players, LAMBDA p : world[p] = "flag")
           /\ scoring_team' = SoleHolder
           /\ \A t \in teams :
                  /\ time_remaining'[t] /= time_remaining[t] => t = SoleHolder
                  /\ (scoring_team = t /\ SoleHolder /= t) =>
                         time_remaining'[t] = time_remaining[t]]_vars

\* A tick whose own evaluation found the state changed, so the holders had
\* changed with no event delivered since the evaluation before, and which
\* counted the first second of the team it found holding.
C16_Witness ==
    /\ last.op = "tick"
    /\ last.evals[1].swip
    /\ flag_state = "HELD"
    /\ time_remaining[scoring_team] = hold_time - 1
    /\ \A t \in teams : t /= scoring_team => time_remaining[t] = hold_time

\* C17: whenever a handler has returned, the scoreboard shows for every team
\* that has joined its current remaining hold time: team join and every
\* decrement are followed by a refresh for all teams in the same handler.
C17_Scoreboard ==
    /\ DOMAIN scoreboard = teams
    /\ \A t \in teams : scoreboard[t] = time_remaining[t]

\* A tick has counted a team down and the scoreboard shows the new value,
\* while the other team still shows the full hold time.
C17_Witness ==
    /\ last.op = "tick"
    /\ scoring_team /= None
    /\ scoreboard[scoring_team] < hold_time
    /\ \E t \in teams : scoreboard[t] = hold_time

\* C18: the tick handler ends the game at most once: once a tick has called
\* end_game, no later tick calls it again, even if the team that ran out is
\* still the sole holder at later ticks.
C18_EndsOnce == tick_ends <= 1

\* C19: the winner is unique: when a tick ends the game exactly one team has
\* remaining hold time 0, the scoring team of that tick, every other team's
\* is above 0, and exactly one team is reported with the score HoldTime.
C19_UniqueWinner ==
    (last.op = "tick" /\ last.ended) =>
        /\ {t \in teams : time_remaining[t] = 0} = {scoring_team}
        /\ Cardinality({t \in teams : last.results[t] = hold_time}) = 1

====
